---------------------------- MODULE Spec2Model ----------------------------
(***************************************************************************)
(* Model of streamMessaging.hpp: the 8-byte msgpacket, the messageTypes    *)
(* enumeration, calcCheckSum, the two createMessage overloads,             *)
(* checksumIsOk and magicByteOk.                                           *)
(*                                                                         *)
(* A packet is a record of its four fields, each held as the unsigned      *)
(* integer its bytes encode.  The value union is held as its 32-bit        *)
(* pattern: the uint member reads it as is, the float member through the   *)
(* IEEE-754 single-precision encoding (FloatBits / BitsFloat).             *)
(*                                                                         *)
(* Two specifications:                                                     *)
(*   Spec        the five operations called in any order on a packet in   *)
(*               automatic storage (fields other than magicByte start     *)
(*               indeterminate);                                           *)
(*   SpecTransit a sender that builds packets in static storage, a        *)
(*               channel that flips bits of the 8 stored bytes, and a     *)
(*               receiver that runs the two verify operations.            *)
(***************************************************************************)
EXTENDS Integers, Sequences, FiniteSets

VARIABLES msg, op, ret, args, origin, flipped

vars == <<msg, op, ret, args, origin, flipped>>

---------------------------------------------------------------------------
(* Fixed-width unsigned arithmetic.  A 32-bit word is held as its two      *)
(* 16-bit halves, [hi, lo], so that every number stays within 16 bits.     *)

Uint8(x) == x % 256

BitOf(x, i) == (x \div (2 ^ i)) % 2

RECURSIVE Xor(_, _)
Xor(a, b) ==
  IF a = 0 THEN b
  ELSE IF b = 0 THEN a
  ELSE (((a % 2) + (b % 2)) % 2) + 2 * Xor(a \div 2, b \div 2)

Word(h, l) == [hi |-> h, lo |-> l]

(* uint32_t ^ uint32_t *)
Xor32(a, b) == Word(Xor(a.hi, b.hi), Xor(a.lo, b.lo))

(* uint32_t >> 16 *)
Shr16(w) == Word(0, w.hi)

(* The integer promotion of a uint8_t operand to 32 bits. *)
Promote8(t) == Word(0, t)

(* The cast (uint16_t) of a 32-bit result. *)
Uint16(w) == w.lo

---------------------------------------------------------------------------
(* Constants and types of the header *)

MAGIC_BYTE == 170

(* Mutant: one enumerator (CTRL) is missing, so every later ordinal shifts. *)
messageTypes_MissingCtrl ==
  << "WAVELEN0", "BANK0", "BANK1",
     "CTRL0", "CTRL1", "CTRL2", "CTRL3", "CTRL4", "CTRL5", "DETUNE", "OCTSPREAD",
     "METAMOD3", "METAMOD4", "METAMOD5", "METAMOD6", "METAMOD7", "METAMOD8" >>

messageTypes ==
  << "WAVELEN0", "BANK0", "BANK1", "CTRL",
     "CTRL0", "CTRL1", "CTRL2", "CTRL3", "CTRL4", "CTRL5", "DETUNE", "OCTSPREAD",
     "METAMOD3", "METAMOD4", "METAMOD5", "METAMOD6", "METAMOD7", "METAMOD8" >>

Kinds == { messageTypes[i] : i \in 1..Len(messageTypes) }

(* An unscoped enum numbers its enumerators from 0 in listing order. *)
Ordinal(k) == (CHOOSE i \in 1..Len(messageTypes) : messageTypes[i] = k) - 1

(* The float member of the value union: a float is stored as its IEEE-754   *)
(* single-precision encoding, sign (1 bit), exponent (8), fraction (23).    *)
FloatBits(f) ==
  Word(f.sign * 32768 + f.exponent * 128 + (f.fraction \div 65536),
       f.fraction % 65536)

BitsFloat(w) ==
  [sign |-> w.hi \div 32768,
   exponent |-> (w.hi \div 128) % 256,
   fraction |-> (w.hi % 128) * 65536 + w.lo]

(* The size_t member of the value union (4 bytes, by the static_assert). *)
uintValue(m) == m.value

floatValue(m) == BitsFloat(m.value)

---------------------------------------------------------------------------
(* The functions of the header, as functions of the packet *)

(* Mutant: the high half is not folded in (v ^ msgType). *)
calcCheckSum_NoFold(m) ==
  LET v == uintValue(m)
  IN  [m EXCEPT !.checksum = Uint16(Xor32(v, Promote8(m.msgType)))]

(* Mutant: msgType is not folded in (v ^ (v >> 16)). *)
calcCheckSum_NoType(m) ==
  LET v == uintValue(m)
  IN  [m EXCEPT !.checksum = Uint16(Xor32(v, Shr16(v)))]

(* Mutant: the 16-bit store lands one byte early, on magicByte. *)
calcCheckSum_StoresEarly(m) ==
  LET v == uintValue(m)
      c == Uint16(Xor32(Xor32(v, Shr16(v)), Promote8(m.msgType)))
  IN  [m EXCEPT !.magicByte = c % 256,
                !.checksum = (c \div 256) + 256 * (m.checksum \div 256)]

calcCheckSum(m) ==
  LET v == uintValue(m)
  IN  [m EXCEPT !.checksum =
         Uint16(Xor32(Xor32(v, Shr16(v)), Promote8(m.msgType)))]

createMessageFloat(m, value, msgType) ==
  calcCheckSum([m EXCEPT !.value = FloatBits(value),
                         !.msgType = Uint8(Ordinal(msgType))])

(* Mutant: the value passes through a 16-bit temporary. *)
createMessageUint_Truncates(m, value, msgType) ==
  calcCheckSum([m EXCEPT !.value = Word(0, value.lo),
                         !.msgType = Uint8(Ordinal(msgType))])

createMessageUint(m, value, msgType) ==
  calcCheckSum([m EXCEPT !.value = value,
                         !.msgType = Uint8(Ordinal(msgType))])

(* Mutant: msgType is left out of the recomputation. *)
checksumIsOk_NoType(m) ==
  LET v == uintValue(m)
  IN  m.checksum = Uint16(Xor32(v, Shr16(v)))

(* Mutant: both sides are compared as uint8_t. *)
checksumIsOk_ByteCompare(m) ==
  LET v == uintValue(m)
  IN  Uint8(m.checksum) = Uint8(Uint16(Xor32(Xor32(v, Shr16(v)), Promote8(m.msgType))))

(* Mutant: the shift is by 8 instead of 16. *)
checksumIsOk_Shift8(m) ==
  LET v == uintValue(m)
      s == Word(v.hi \div 256, (v.hi % 256) * 256 + (v.lo \div 256))
  IN  m.checksum = Uint16(Xor32(Xor32(v, s), Promote8(m.msgType)))

checksumIsOk(m) ==
  LET v == uintValue(m)
  IN  m.checksum = Uint16(Xor32(Xor32(v, Shr16(v)), Promote8(m.msgType)))

(* Mutant: the lowest bit of the magic byte is not compared. *)
magicByteOk_IgnoresLowBit(m) == (m.magicByte \div 2) = (MAGIC_BYTE \div 2)

magicByteOk(m) == m.magicByte = MAGIC_BYTE

---------------------------------------------------------------------------
(* Input sets *)

MaxFlips == 2

(* 0, 1, 440, 0xFFFF, 0x10000, 0x1FFFF, 0xAAAA5555, 0xFFFFFFFF *)
UintSamples ==
  { Word(0, 0), Word(0, 1), Word(0, 440), Word(0, 65535), Word(1, 0),
    Word(1, 65535), Word(43690, 21845), Word(65535, 65535) }

FloatSamples ==
  { [sign |-> 0, exponent |-> 135, fraction |-> 6029312],   \* 440.0
    [sign |-> 1, exponent |-> 127, fraction |-> 0],         \* -1.0
    [sign |-> 0, exponent |-> 0,   fraction |-> 0],         \* 0.0
    [sign |-> 0, exponent |-> 0,   fraction |-> 1],         \* least subnormal
    [sign |-> 0, exponent |-> 254, fraction |-> 8388607],   \* FLT_MAX
    [sign |-> 1, exponent |-> 123, fraction |-> 5033165] }  \* -0.1

(* What an uninitialised field may hold. *)
IndeterminateValues == { Word(0, 0), Word(57005, 48879) }

IndeterminateBytes == {0, 17, 255}

IndeterminateChecksums == {0, 48879, 65535}

(* 0xAAAA5555 *)
TransitUints == { Word(43690, 21845) }

TransitFloats == { [sign |-> 0, exponent |-> 135, fraction |-> 6029312] }

TransitKinds == {"BANK0", "METAMOD8"}

---------------------------------------------------------------------------
(* The stored bytes: value in bits 0..31, msgType in 32..39, magicByte in   *)
(* 40..47, checksum in 48..63 of the packed 8-byte struct.  The channel     *)
(* flips bits of the first six bytes; the checksum bytes arrive as sent.    *)

ValueBits == 0..31

MsgTypeBits == 32..39

MagicBits == 40..47

FlippableBits == ValueBits \cup MsgTypeBits \cup MagicBits

Toggle(x, i) == IF BitOf(x, i) = 1 THEN x - (2 ^ i) ELSE x + (2 ^ i)

FlipPacketBit(m, i) ==
  IF i \in 0..15 THEN [m EXCEPT !.value.lo = Toggle(@, i)]
  ELSE IF i \in 16..31 THEN [m EXCEPT !.value.hi = Toggle(@, i - 16)]
  ELSE IF i \in MsgTypeBits THEN [m EXCEPT !.msgType = Toggle(@, i - 32)]
  ELSE IF i \in MagicBits THEN [m EXCEPT !.magicByte = Toggle(@, i - 40)]
  ELSE m

---------------------------------------------------------------------------
(* States *)

Creates == {"createMessageFloat", "createMessageUint"}

(* A packet declared in automatic storage: the default member initializer   *)
(* sets magicByte, the other fields are indeterminate.                      *)
Init ==
  /\ msg \in [value : IndeterminateValues, msgType : IndeterminateBytes,
              magicByte : {MAGIC_BYTE}, checksum : IndeterminateChecksums]
  /\ op = "init"
  /\ ret = <<>>
  /\ args = <<>>
  /\ origin = "none"
  /\ flipped = {}

(* A packet declared in static storage: zero-initialised, then magicByte.   *)
InitStatic ==
  /\ msg = [value |-> Word(0, 0), msgType |-> 0, magicByte |-> MAGIC_BYTE, checksum |-> 0]
  /\ op = "init"
  /\ ret = <<>>
  /\ args = <<>>
  /\ origin = "none"
  /\ flipped = {}

DoCreateMessageFloat(values, kinds) ==
  \E value \in values, msgType \in kinds :
    /\ msg' = createMessageFloat(msg, value, msgType)
    /\ op' = "createMessageFloat"
    /\ ret' = <<>>
    /\ args' = <<value, msgType>>
    /\ origin' = "float"
    /\ flipped' = flipped \cap MagicBits

DoCreateMessageUint(values, kinds) ==
  \E value \in values, msgType \in kinds :
    /\ msg' = createMessageUint(msg, value, msgType)
    /\ op' = "createMessageUint"
    /\ ret' = <<>>
    /\ args' = <<value, msgType>>
    /\ origin' = "uint"
    /\ flipped' = flipped \cap MagicBits

DoCalcCheckSum ==
  /\ msg' = calcCheckSum(msg)
  /\ op' = "calcCheckSum"
  /\ ret' = <<>>
  /\ args' = <<>>
  /\ origin' = "recomputed"
  /\ UNCHANGED flipped

DoChecksumIsOk ==
  /\ ret' = <<checksumIsOk(msg)>>
  /\ op' = "checksumIsOk"
  /\ args' = <<>>
  /\ UNCHANGED <<msg, origin, flipped>>

DoMagicByteOk ==
  /\ ret' = <<magicByteOk(msg)>>
  /\ op' = "magicByteOk"
  /\ args' = <<>>
  /\ UNCHANGED <<msg, origin, flipped>>

(* The channel or the storage flips one bit of the 8 stored bytes. *)
FlipBit ==
  \E i \in FlippableBits :
    /\ i \in flipped \/ Cardinality(flipped) < MaxFlips
    /\ msg' = FlipPacketBit(msg, i)
    /\ flipped' = IF i \in flipped THEN flipped \ {i} ELSE flipped \cup {i}
    /\ op' = "flipBit"
    /\ ret' = <<>>
    /\ args' = <<>>
    /\ UNCHANGED origin

Next ==
  \/ DoCreateMessageFloat(FloatSamples, Kinds)
  \/ DoCreateMessageUint(UintSamples, Kinds)
  \/ DoCalcCheckSum
  \/ DoChecksumIsOk
  \/ DoMagicByteOk

Spec == Init /\ [][Next]_vars

NextTransit ==
  \/ DoCreateMessageFloat(TransitFloats, TransitKinds)
  \/ DoCreateMessageUint(TransitUints, TransitKinds)
  \/ FlipBit
  \/ DoChecksumIsOk
  \/ DoMagicByteOk

SpecTransit == InitStatic /\ [][NextTransit]_vars

TypeOK ==
  /\ msg.value.hi \in 0..65535
  /\ msg.value.lo \in 0..65535
  /\ msg.msgType \in 0..255
  /\ msg.magicByte \in 0..255
  /\ msg.checksum \in 0..65535
  /\ origin \in {"none", "float", "uint", "recomputed"}
  /\ flipped \subseteq FlippableBits

---------------------------------------------------------------------------
(* Properties *)

Built == origin \in {"float", "uint"}

(* The bits of value and msgType that differ from what createMessage stored. *)
PayloadFlips == flipped \cap (ValueBits \cup MsgTypeBits)

(* C1: right after a createMessage call of either overload, with any value  *)
(* and any kind, the packet passes checksumIsOk: the function holds of the  *)
(* packet the call leaves, and a checksumIsOk call on it returns true.      *)
C1_ChecksumOkAfterCreate ==
  /\ op \in Creates => checksumIsOk(msg)
  /\ (op = "checksumIsOk" /\ Built) => ret = <<TRUE>>

C1_Witness ==
  /\ op = "checksumIsOk"
  /\ origin = "float"
  /\ msg.value = Word(17372, 0)
  /\ msg.msgType = 10
  /\ ret = <<TRUE>>

(* C2: the checksum calcCheckSum stores is, bit by bit, the low half of the *)
(* value XOR the high half of the value XOR msgType, in 16 bits.            *)
C2_ChecksumIsFold ==
  op \in Creates \cup {"calcCheckSum"} =>
    /\ msg.checksum \in 0..65535
    /\ \A i \in 0..15 :
         BitOf(msg.checksum, i) =
           (BitOf(msg.value.lo, i) + BitOf(msg.value.hi, i) + BitOf(msg.msgType, i)) % 2

C2_Witness ==
  /\ op = "calcCheckSum"
  /\ msg.value = Word(57005, 48879)
  /\ msg.msgType = 255
  /\ msg.checksum = 24765

(* C3: in every packet state, built, never built or with bits changed       *)
(* behind the functions' back, checksumIsOk returns true exactly when the   *)
(* stored checksum is the one calcCheckSum would store for the packet.      *)
C3_VerifyAgreesWithCompute ==
  op = "checksumIsOk" =>
    ((ret = <<TRUE>>) <=> (msg.checksum = calcCheckSum(msg).checksum))

C3_Witness ==
  /\ op = "checksumIsOk"
  /\ PayloadFlips # {}
  /\ ret = <<FALSE>>
  /\ msg.checksum # calcCheckSum(msg).checksum

(* C4: a packet built by createMessage in which exactly one bit of the      *)
(* value field was flipped, msgType and checksum as stored, fails           *)
(* checksumIsOk.                                                            *)
C4_SingleValueFlipDetected ==
  (/\ op = "checksumIsOk"
   /\ Built
   /\ Cardinality(PayloadFlips) = 1
   /\ PayloadFlips \subseteq ValueBits) => ret = <<FALSE>>

C4_Witness ==
  /\ op = "checksumIsOk"
  /\ Built
  /\ PayloadFlips = {31}
  /\ ret = <<FALSE>>

(* C5: after createMessage(msg, u, k) with an unsigned u, the value field   *)
(* reads back as u and msgType as the ordinal of k, whatever the packet     *)
(* held before.                                                             *)
C5_UintRoundTrip ==
  op = "createMessageUint" =>
    /\ uintValue(msg) = args[1]
    /\ msg.msgType = Ordinal(args[2])

C5_Witness ==
  /\ op = "createMessageUint"
  /\ args = <<Word(65535, 65535), "DETUNE">>
  /\ uintValue(msg) = Word(65535, 65535)
  /\ msg.msgType = 10

(* C6: magicByteOk returns true on a packet built by createMessage whose    *)
(* magic byte is as initialised, and false on every packet whose magicByte  *)
(* field holds anything other than 170.                                     *)
C6_MagicByteCheck ==
  /\ (op = "magicByteOk" /\ Built /\ flipped \cap MagicBits = {}) => ret = <<TRUE>>
  /\ (op = "magicByteOk" /\ msg.magicByte # 170) => ret = <<FALSE>>

C6_Witness ==
  /\ op = "magicByteOk"
  /\ Built
  /\ msg.magicByte = 171
  /\ ret = <<FALSE>>

(* C7: for the value of a packet just built, the checksums of that value    *)
(* with WAVELEN0 and with BANK0 have equal high bytes and low bytes that    *)
(* differ by exactly 1, and every kind other than the packet's own gives a  *)
(* checksum different from the packet's.                                    *)
C7_ChecksumDependsOnKind ==
  op \in Creates =>
    LET w == createMessageUint(msg, msg.value, "WAVELEN0").checksum
        b == createMessageUint(msg, msg.value, "BANK0").checksum
    IN  /\ w \div 256 = b \div 256
        /\ (w % 256) - (b % 256) \in {1, -1}
        /\ \A k \in Kinds :
             k # args[2] => createMessageUint(msg, msg.value, k).checksum # msg.checksum

C7_Witness ==
  /\ op = "createMessageFloat"
  /\ args[2] = "BANK0"
  /\ msg.checksum = createMessageFloat(msg, args[1], "WAVELEN0").checksum + 1

(* C8: checksumIsOk and magicByteOk leave the packet as it is, calcCheckSum *)
(* changes no field but checksum, createMessage changes no field but value, *)
(* msgType and checksum; so magicByte is 170 in every state the operations  *)
(* reach from a default-initialised packet.                                 *)
C8_FrameStep ==
  /\ op' \in {"checksumIsOk", "magicByteOk"} => msg' = msg
  /\ op' = "calcCheckSum" =>
       /\ msg'.value = msg.value
       /\ msg'.msgType = msg.msgType
       /\ msg'.magicByte = msg.magicByte
  /\ op' \in Creates => msg'.magicByte = msg.magicByte

C8_OnlyNamedFieldsWritten == [][C8_FrameStep]_vars /\ [](msg.magicByte = 170)

C8_Witness ==
  /\ op = "magicByteOk"
  /\ origin = "recomputed"
  /\ msg.magicByte = 170
  /\ ret = <<TRUE>>

EnumShape ==
  /\ \A i \in 1..Len(messageTypes) : Ordinal(messageTypes[i]) = i - 1
  /\ Ordinal("WAVELEN0") = 0
  /\ Ordinal("BANK0") = 1
  /\ Ordinal("DETUNE") = 10
  /\ \A k \in Kinds : Ordinal(k) \in 0..255
  /\ op \in Creates => msg.msgType = Ordinal(args[2])

(* C9 as stated: the enumeration has exactly 17 named kinds, numbered in    *)
(* listing order from WAVELEN0 = 0, BANK0 = 1, DETUNE = 10, all distinct    *)
(* and each fitting the one-byte msgType field.                             *)
C9_SeventeenKinds ==
  /\ Len(messageTypes) = 17
  /\ Cardinality(Kinds) = 17
  /\ EnumShape

(* C9 amended: the enumeration has exactly 18 named kinds, numbered 0..17   *)
(* in listing order (WAVELEN0 = 0, BANK0 = 1, DETUNE = 10, METAMOD8 = 17),  *)
(* all distinct and each fitting the one-byte msgType field.                *)
C9_EighteenKinds ==
  /\ Len(messageTypes) = 18
  /\ Cardinality(Kinds) = 18
  /\ Ordinal("METAMOD8") = 17
  /\ EnumShape
  /\ op \in Creates => msg.msgType \in 0..17

C9_Witness ==
  /\ op \in Creates
  /\ args[2] = "METAMOD8"
  /\ msg.msgType = 17

(* C10: a packet built by createMessage still passes checksumIsOk after     *)
(* bits i and i+16 of the value are both flipped (i in 0..15), and after    *)
(* bit j of the value and bit j of msgType are both flipped (j in 0..7),    *)
(* the checksum being left as stored.                                       *)
C10_PairedFlipsUndetected ==
  (/\ op = "checksumIsOk"
   /\ Built
   /\ \/ \E i \in 0..15 : PayloadFlips = {i, i + 16}
      \/ \E j \in 0..7 : PayloadFlips = {j, 32 + j}) => ret = <<TRUE>>

C10_Witness ==
  /\ op = "checksumIsOk"
  /\ Built
  /\ PayloadFlips = {3, 35}
  /\ ret = <<TRUE>>

=============================================================================
